---- MODULE Spec2Model ----
(***************************************************************************)
(* Model of the level monitor of bmslib: the stateless threshold check     *)
(* level_simple::check, the hysteresis monitor level_hyst::LevelHyst and   *)
(* its two Observer implementations (src/monitor/level.rs), with the       *)
(* context carriers of src/common/framework.rs.                            *)
(*                                                                         *)
(* The code only copies and compares values of the FixedWidth type T, so   *)
(* the model draws every T input from a finite sample of the type: the     *)
(* values next to the type's extremes and the values the unit tests use.   *)
(* The monitor `dut` is built by new(set, reset, initial); `swapped` is a  *)
(* second monitor built by new(reset, set, initial) that receives exactly  *)
(* the same calls.  Calls are sequential: `last` records the call that has *)
(* just returned (its name, its arguments, the monitor before the call and *)
(* what it returned) until the caller drops the result.                    *)
(***************************************************************************)
EXTENDS Integers, FiniteSets, Sequences, TLC

VARIABLES ty, args, dut, swapped, last

vars == <<ty, args, dut, swapped, last>>

(* ----------------------------- the type T ----------------------------- *)

\* Width of the narrowest FixedWidth types, u8 and i8.  The wider types
\* (u16, i16, u32, i32) are compared in the same way, and the sampled
\* values lie in the same order in each of them.
Bits == 8

\* How many values next to each extreme of the type are sampled.
Near == 1

Types == {"i8", "u8"}

Pow2(n) == 2 ^ n

TMin(t) == IF t = "i8" THEN 0 - Pow2(Bits - 1) ELSE 0

TMax(t) == IF t = "i8" THEN Pow2(Bits - 1) - 1 ELSE Pow2(Bits) - 1

\* The literals of test_overlimit, test_underlimit and test_observer_pattern.
TestVals == {5, 70, 71, 100, 101}

Samples(t) ==
    (TMin(t) .. (TMin(t) + Near - 1)) \cup ((TMax(t) - Near + 1) .. TMax(t)) \cup TestVals

(* --------------------------- level_simple ----------------------------- *)

OVER == "OVER"

UNDER == "UNDER"

LevelState == {OVER, UNDER}

check_ge(val, limit) == IF val >= limit THEN OVER ELSE UNDER

check_inverted(val, limit) == IF val < limit THEN OVER ELSE UNDER

check(val, limit) == IF val > limit THEN OVER ELSE UNDER

(* ---------------------------- level_hyst ------------------------------ *)

LevelHyst(t) == [level_state : LevelState, limit : Samples(t), hyst : Samples(t)]

new_unordered(set, reset, initial) ==
    [level_state |-> initial, limit |-> set, hyst |-> reset]

new_derived(set, reset, initial) ==
    IF set < reset
    THEN [level_state |-> UNDER, limit |-> reset, hyst |-> set]
    ELSE [level_state |-> OVER, limit |-> set, hyst |-> reset]

new(set, reset, initial) ==
    IF set < reset
    THEN [level_state |-> initial, limit |-> reset, hyst |-> set]
    ELSE [level_state |-> initial, limit |-> set, hyst |-> reset]

set_state_on_copy(self, state) == self

set_state_rebuilds(self, state) ==
    [level_state |-> state, limit |-> self.hyst, hyst |-> self.limit]

set_state(self, state) == [self EXCEPT !.level_state = state]

get_state(self) == self.level_state

\* LevelHyst::check: the monitor after the call and the value returned.
LevelHyst_check_swapped_thresholds(self, val) ==
    LET a == IF self.level_state = OVER
             THEN check(val, self.limit)
             ELSE check(val, self.hyst)
    IN  [self |-> [self EXCEPT !.level_state = a], ret |-> a]

LevelHyst_check_no_store(self, val) ==
    LET a == IF self.level_state = OVER
             THEN check(val, self.hyst)
             ELSE check(val, self.limit)
    IN  [self |-> self, ret |-> a]

LevelHyst_check_args_reversed(self, val) ==
    LET a == IF self.level_state = OVER
             THEN check(self.hyst, val)
             ELSE check(val, self.limit)
    IN  [self |-> [self EXCEPT !.level_state = a], ret |-> a]

LevelHyst_check(self, val) ==
    LET a == IF self.level_state = OVER
             THEN check(val, self.hyst)
             ELSE check(val, self.limit)
    IN  [self |-> [self EXCEPT !.level_state = a], ret |-> a]

(* ------------------------ framework carriers -------------------------- *)

SensorGroupInner(t) == [min : Samples(t), max : Samples(t)]

SensorInner(t) == [val : Samples(t)]

get_max(sender) == sender.max

get_min(sender) == sender.min

(* ------------------------ Observer for LevelHyst ---------------------- *)

\* self.level_state.replace(self.check(sender.get_max())): the check stores
\* its result, and the result is then stored a second time.
dispatch_group_uses_val(self, sender, val) ==
    LET r == LevelHyst_check(self, val)
    IN  [r.self EXCEPT !.level_state = r.ret]

dispatch_SensorGroupInner(self, sender, val) ==
    LET r == LevelHyst_check(self, get_max(sender))
    IN  [r.self EXCEPT !.level_state = r.ret]

dispatch_sensor_uses_val(self, sender, val) ==
    LET r == LevelHyst_check(self, val)
    IN  [r.self EXCEPT !.level_state = r.ret]

dispatch_SensorInner(self, sender, val) ==
    LET r == LevelHyst_check(self, sender.val)
    IN  [r.self EXCEPT !.level_state = r.ret]

(* ------------------------------ behaviour ----------------------------- *)

Init ==
    /\ ty \in Types
    /\ args \in [set : Samples(ty), reset : Samples(ty), initial : LevelState]
    /\ dut = new(args.set, args.reset, args.initial)
    /\ swapped = new(args.reset, args.set, args.initial)
    /\ last = [op |-> "new"]

\* No call is in progress and no result is pending.
Ready == last.op \in {"new", "idle"}

\* What the call before the one being made was: "new", "check" or "other".
Prior == IF last.op = "new" THEN "new" ELSE last.prior

\* A direct call of level_simple::check(val, limit).
SimpleCheck ==
    /\ Ready
    /\ \E val \in Samples(ty), limit \in Samples(ty) :
        last' = [op |-> "simple_check", val |-> val, limit |-> limit,
                 ret |-> check(val, limit)]
    /\ UNCHANGED <<ty, args, dut, swapped>>

\* dut.check(val)
Check ==
    /\ Ready
    /\ \E val \in Samples(ty) :
        LET r == LevelHyst_check(dut, val)
            s == LevelHyst_check(swapped, val)
        IN  /\ dut' = r.self
            /\ swapped' = s.self
            /\ last' = [op |-> "check", val |-> val, prev |-> dut,
                        prior |-> Prior, ret |-> r.ret, ret_swapped |-> s.ret]
    /\ UNCHANGED <<ty, args>>

\* dut.set_state(state)
SetState ==
    /\ Ready
    /\ \E state \in LevelState :
        /\ dut' = set_state(dut, state)
        /\ swapped' = set_state(swapped, state)
        /\ last' = [op |-> "set_state", state |-> state, prev |-> dut]
    /\ UNCHANGED <<ty, args>>

\* dut.get_state()
GetState ==
    /\ Ready
    /\ last' = [op |-> "get_state", prev |-> dut, ret |-> get_state(dut)]
    /\ UNCHANGED <<ty, args, dut, swapped>>

\* fp.dispatch(&inner, val) with fp = &dut as Observer<T, SensorGroupInner<T>>
DispatchGroup ==
    /\ Ready
    /\ \E sender \in SensorGroupInner(ty), val \in Samples(ty) :
        /\ dut' = dispatch_SensorGroupInner(dut, sender, val)
        /\ swapped' = dispatch_SensorGroupInner(swapped, sender, val)
        /\ last' = [op |-> "dispatch_group", sender |-> sender, val |-> val,
                    prev |-> dut]
    /\ UNCHANGED <<ty, args>>

\* fp.dispatch(&inner, val) with fp = &dut as Observer<T, SensorInner<T>>
DispatchSensor ==
    /\ Ready
    /\ \E sender \in SensorInner(ty), val \in Samples(ty) :
        /\ dut' = dispatch_SensorInner(dut, sender, val)
        /\ swapped' = dispatch_SensorInner(swapped, sender, val)
        /\ last' = [op |-> "dispatch_sensor", sender |-> sender, val |-> val,
                    prev |-> dut]
    /\ UNCHANGED <<ty, args>>

\* The caller is done with the result of the call that returned.
Forget ==
    /\ ~Ready
    /\ last' = [op |-> "idle",
                prior |-> IF last.op = "check" THEN "check" ELSE "other"]
    /\ UNCHANGED <<ty, args, dut, swapped>>

Next ==
    \/ SimpleCheck
    \/ Check
    \/ SetState
    \/ GetState
    \/ DispatchGroup
    \/ DispatchSensor
    \/ Forget

Spec == Init /\ [][Next]_vars

TypeOK ==
    /\ ty \in Types
    /\ dut \in LevelHyst(ty)
    /\ swapped \in LevelHyst(ty)
    /\ last.op \in {"new", "idle", "simple_check", "check", "set_state",
                    "get_state", "dispatch_group", "dispatch_sensor"}
(* ------------------------------- claims ------------------------------- *)

\* The comparison a threshold check is specified to make, written out.
Above(value, threshold) == IF value > threshold THEN OVER ELSE UNDER

\* The four calls of test_overlimit, made on the monitor that
\* new(100, 70, UNDER) has just built.
ScenarioA ==
    (last.op = "new" /\ args = [set |-> 100, reset |-> 70, initial |-> UNDER]) =>
        LET r1 == LevelHyst_check(dut, 100)
            r2 == LevelHyst_check(r1.self, 101)
            r3 == LevelHyst_check(r2.self, 71)
            r4 == LevelHyst_check(r3.self, 70)
        IN  /\ <<r1.ret, r2.ret, r3.ret, r4.ret>> = <<UNDER, OVER, OVER, UNDER>>
            /\ <<get_state(r1.self), get_state(r2.self), get_state(r3.self),
                 get_state(r4.self)>> = <<UNDER, OVER, OVER, UNDER>>

\* C1: check(value) follows the directional rule: from OVER the new state is
\* OVER exactly when value > hyst, from UNDER it is OVER exactly when
\* value > limit; new(100, 70, UNDER) followed by check(100), check(101),
\* check(71), check(70) yields UNDER, OVER, OVER, UNDER.
C1_DirectionalTransition ==
    /\ last.op = "check" =>
        /\ last.prev.level_state = OVER =>
              get_state(dut) = Above(last.val, last.prev.hyst)
        /\ last.prev.level_state = UNDER =>
              get_state(dut) = Above(last.val, last.prev.limit)
    /\ ScenarioA

\* The last call of test_overlimit: check(70) takes the monitor built by
\* new(100, 70, UNDER) from OVER down to UNDER.
C1_Witness ==
    /\ args = [set |-> 100, reset |-> 70, initial |-> UNDER]
    /\ last.op = "check"
    /\ last.val = 70
    /\ last.prev.level_state = OVER
    /\ get_state(dut) = UNDER

\* C2: level_simple::check(val, limit) returns OVER if and only if
\* val > limit and UNDER otherwise; check(val, val) is UNDER.
C2_SimpleCheckContract ==
    last.op = "simple_check" =>
        /\ last.ret \in LevelState
        /\ last.ret = OVER <=> last.val > last.limit
        /\ last.ret = UNDER <=> last.val <= last.limit
        /\ last.val = last.limit => last.ret = UNDER

\* check(val, val) at the largest value of the type.
C2_Witness ==
    /\ last.op = "simple_check"
    /\ last.val = last.limit
    /\ last.val = TMax(ty)
    /\ last.ret = UNDER

\* C3: whatever the order of the constructor arguments, limit is the higher
\* and hyst the lower of the two, and hyst <= limit in every reachable state.
C3_ThresholdsNormalized ==
    /\ args.set >= args.reset => dut.limit = args.set /\ dut.hyst = args.reset
    /\ args.set <= args.reset => dut.limit = args.reset /\ dut.hyst = args.set
    /\ dut.hyst <= dut.limit
    /\ swapped.hyst <= swapped.limit

\* Arguments given lower first, after a dispatch that changed the state.
C3_Witness ==
    /\ args.set < args.reset
    /\ last.op = "dispatch_group"
    /\ get_state(dut) # last.prev.level_state
    /\ dut.limit = args.reset
    /\ dut.hyst = args.set

\* C4: no chatter: a check with a value > hyst on a monitor in OVER leaves it
\* OVER, and a check with a value <= limit on a monitor in UNDER leaves it
\* UNDER; the thresholds are unchanged, so this holds for any number of
\* repeated calls.
C4_NoChatter ==
    last.op = "check" =>
        /\ (last.prev.level_state = OVER /\ last.val > last.prev.hyst) =>
              (get_state(dut) = OVER /\ last.ret = OVER)
        /\ (last.prev.level_state = UNDER /\ last.val <= last.prev.limit) =>
              (get_state(dut) = UNDER /\ last.ret = UNDER)
        /\ dut.hyst = last.prev.hyst
        /\ dut.limit = last.prev.limit

\* A check that directly follows another check, with a value inside the
\* band between the thresholds, on a monitor that is OVER and stays OVER.
C4_Witness ==
    /\ last.op = "check"
    /\ last.prior = "check"
    /\ last.prev.level_state = OVER
    /\ last.val > dut.hyst
    /\ last.val <= dut.limit
    /\ get_state(dut) = OVER

\* C5: new(a, b, s) and new(b, a, s) have the same limit and hyst, return
\* the same classification at every check and hold the same state after
\* every call.
C5_ArgumentOrderIrrelevant ==
    /\ dut.limit = swapped.limit
    /\ dut.hyst = swapped.hyst
    /\ get_state(dut) = get_state(swapped)
    /\ last.op = "check" => last.ret = last.ret_swapped

\* Two different arguments, and a second check in a row that changes the
\* state of both monitors.
C5_Witness ==
    /\ args.set # args.reset
    /\ last.op = "check"
    /\ last.prior = "check"
    /\ last.ret # last.prev.level_state
    /\ last.ret_swapped = last.ret

\* The two dispatches of test_observer_pattern, made on the monitor that
\* new(70, 100, OVER) has just built, with any passed value and any min.
ScenarioDispatch ==
    (last.op = "new" /\ args = [set |-> 70, reset |-> 100, initial |-> OVER]) =>
        \A v \in Samples(ty), lo \in Samples(ty) :
            LET m1 == dispatch_SensorGroupInner(dut, [min |-> lo, max |-> 5], v)
                m2 == dispatch_SensorGroupInner(m1, [min |-> lo, max |-> 101], v)
            IN  get_state(m1) = UNDER /\ get_state(m2) = OVER

\* C6: dispatch with a SensorGroupInner context feeds the context's max into
\* check and ignores min and the passed value: the monitor after
\* dispatch(&ctx, v) is the monitor after check(ctx.max), and get_state on
\* the monitor shows it; new(70, 100, OVER) dispatched with max = 5 becomes
\* UNDER, then dispatched with max = 101 becomes OVER.
C6_DispatchGroupFeedsMax ==
    /\ last.op = "dispatch_group" =>
        /\ dut = LevelHyst_check(last.prev, last.sender.max).self
        /\ get_state(dut) = LevelHyst_check(last.prev, last.sender.max).ret
        /\ last.prev.level_state = OVER =>
              get_state(dut) = Above(last.sender.max, last.prev.hyst)
        /\ last.prev.level_state = UNDER =>
              get_state(dut) = Above(last.sender.max, last.prev.limit)
    /\ ScenarioDispatch

\* The second dispatch of test_observer_pattern: max = 101 with min = 5 and
\* the passed value 5 takes the monitor from UNDER to OVER, where a check of
\* min or of the passed value would have left it UNDER.
C6_Witness ==
    /\ args = [set |-> 70, reset |-> 100, initial |-> OVER]
    /\ last.op = "dispatch_group"
    /\ last.sender = [min |-> 5, max |-> 101]
    /\ last.val = 5
    /\ last.prev.level_state = UNDER
    /\ get_state(dut) = OVER

\* C7: dispatch with a SensorInner context feeds the context's val into
\* check and ignores the passed value: the monitor after dispatch(&ctx, v)
\* is the monitor after check(ctx.val), for every v.
C7_DispatchSensorFeedsVal ==
    last.op = "dispatch_sensor" =>
        /\ dut = LevelHyst_check(last.prev, last.sender.val).self
        /\ last.prev.level_state = OVER =>
              get_state(dut) = Above(last.sender.val, last.prev.hyst)
        /\ last.prev.level_state = UNDER =>
              get_state(dut) = Above(last.sender.val, last.prev.limit)
        /\ \A v \in Samples(ty) :
              dispatch_SensorInner(last.prev, last.sender, v) = dut

\* A dispatch whose passed value, had it been checked instead of ctx.val,
\* would have given the other classification.
C7_Witness ==
    /\ last.op = "dispatch_sensor"
    /\ last.val # last.sender.val
    /\ get_state(dut) # last.prev.level_state
    /\ LevelHyst_check(last.prev, last.val).ret # get_state(dut)

\* C8: check stores the new state and returns it: after every check call
\* get_state() is the classification the call returned.
C8_CheckStoresWhatItReturns ==
    last.op = "check" => get_state(dut) = last.ret

\* A check that returned a classification other than the state before it.
C8_Witness ==
    /\ last.op = "check"
    /\ last.ret # last.prev.level_state
    /\ get_state(dut) = last.ret

\* C9: set_state(c) overrides the state whatever the thresholds and the
\* state before: get_state() = c right after it, limit and hyst unchanged.
C9_SetStateOverrides ==
    last.op = "set_state" =>
        /\ get_state(dut) = last.state
        /\ dut.limit = last.prev.limit
        /\ dut.hyst = last.prev.hyst

\* set_state(OVER) on a monitor in UNDER whose limit is the largest value of
\* the type: no check(value) could have taken it to OVER.
C9_Witness ==
    /\ last.op = "set_state"
    /\ last.state = OVER
    /\ last.prev.level_state = UNDER
    /\ dut.limit = TMax(ty)
    /\ \A v \in Samples(ty) : LevelHyst_check(last.prev, v).ret = UNDER
    /\ get_state(dut) = OVER

\* C10: the state right after new(set, reset, initial) is initial, whatever
\* set and reset are; the first check classifies from that state by the
\* directional rule, which is the only thing that corrects an initial state
\* that does not fit the first reading.
C10_InitialStateIsArgument ==
    /\ last.op = "new" => get_state(dut) = args.initial
    /\ (last.op = "check" /\ last.prior = "new") =>
        /\ last.prev.level_state = args.initial
        /\ args.initial = OVER => last.ret = Above(last.val, dut.hyst)
        /\ args.initial = UNDER => last.ret = Above(last.val, dut.limit)

\* A monitor built as OVER although its first reading is at or below hyst:
\* the first check forces the transition to UNDER.
C10_Witness ==
    /\ last.op = "check"
    /\ last.prior = "new"
    /\ args.initial = OVER
    /\ args.set > args.reset
    /\ last.val <= dut.hyst
    /\ get_state(dut) = UNDER

\* C11: level_simple::check is monotone in its value: if check(val2, limit)
\* is OVER, then check(val1, limit) is OVER for every val1 > val2.
C11_SimpleCheckMonotone ==
    (last.op = "simple_check" /\ last.ret = OVER) =>
        \A val1 \in Samples(ty) :
            val1 > last.val => check(val1, last.limit) = OVER

\* check(val2, limit) returned OVER for a val2 that has larger values
\* above it.
C11_Witness ==
    /\ last.op = "simple_check"
    /\ last.ret = OVER
    /\ \E val1 \in Samples(ty) : val1 > last.val

\* The other classification.
Opposite(state) == IF state = OVER THEN UNDER ELSE OVER

\* C13: dead band: a check with hyst < value <= limit causes no transition,
\* whether the monitor is OVER or UNDER.
C13_DeadBand ==
    (last.op = "check" /\ last.prev.hyst < last.val /\ last.val <= last.prev.limit) =>
        /\ get_state(dut) = last.prev.level_state
        /\ last.ret = last.prev.level_state
        /\ LevelHyst_check([last.prev EXCEPT !.level_state = Opposite(@)],
                           last.val).ret = Opposite(last.prev.level_state)

\* A check with value = limit, the upper end of the band, on a monitor in
\* UNDER with hyst < limit.
C13_Witness ==
    /\ last.op = "check"
    /\ last.prev.hyst < last.prev.limit
    /\ last.val = last.prev.limit
    /\ last.prev.level_state = UNDER
    /\ get_state(dut) = UNDER

\* C15: outside the dead band the result of check does not depend on the
\* state before the call: value > limit gives OVER and value <= hyst gives
\* UNDER from either state, so a monitor with the same thresholds and the
\* other state agrees after such a value, and on every check after it.
C15_OutsideBandStateIndependent ==
    (last.op = "check" /\ (last.val > last.prev.limit \/ last.val <= last.prev.hyst)) =>
        LET other == LevelHyst_check(
                         [last.prev EXCEPT !.level_state = Opposite(@)], last.val)
        IN  /\ last.val > last.prev.limit => last.ret = OVER /\ other.ret = OVER
            /\ last.val <= last.prev.hyst => last.ret = UNDER /\ other.ret = UNDER
            /\ other.self = dut
            /\ \A v \in Samples(ty) :
                  LevelHyst_check(other.self, v) = LevelHyst_check(dut, v)

\* A check with a value at or below hyst on a monitor that was OVER: it
\* changed this monitor and would have left an UNDER monitor UNDER.
C15_Witness ==
    /\ last.op = "check"
    /\ last.val <= last.prev.hyst
    /\ last.prev.level_state = OVER
    /\ get_state(dut) = UNDER

\* C16: check is idempotent on a repeated input: calling check(v) again
\* right after check(v) returns the same classification and leaves the
\* same state.
C16_CheckIdempotent ==
    last.op = "check" =>
        LET again == LevelHyst_check(dut, last.val)
        IN  /\ again.ret = last.ret
            /\ again.self = dut

\* A check that changed the state, with different thresholds.
C16_Witness ==
    /\ last.op = "check"
    /\ last.ret # last.prev.level_state
    /\ dut.hyst < dut.limit

\* C18: limit and hyst are fixed at construction: check, set_state,
\* get_state and dispatch change at most the stored classification.
C18_ThresholdsFixed ==
    /\ dut.limit = new(args.set, args.reset, args.initial).limit
    /\ dut.hyst = new(args.set, args.reset, args.initial).hyst
    /\ last.op \in {"check", "set_state", "get_state", "dispatch_group",
                    "dispatch_sensor"} =>
          dut = [last.prev EXCEPT !.level_state = get_state(dut)]
    /\ last.op = "get_state" => dut = last.prev

\* A set_state that changed the classification of a monitor with two
\* different thresholds.
C18_Witness ==
    /\ last.op = "set_state"
    /\ get_state(dut) # last.prev.level_state
    /\ dut.hyst < dut.limit

\* Every value of the type T, not only the sampled ones.
AllValues(t) == TMin(t) .. TMax(t)

\* C19: every value of the type, its minimum and maximum included, is
\* classified by comparison alone; from OVER check(hyst) always gives UNDER,
\* and from UNDER some check gives OVER if and only if limit is below the
\* maximum of the type.
C19_ExtremesClassified ==
    (Ready \/ last.op \in {"check", "set_state"}) =>
        /\ \A v \in AllValues(ty) :
              LevelHyst_check(dut, v).ret =
                  IF get_state(dut) = OVER THEN Above(v, dut.hyst)
                  ELSE Above(v, dut.limit)
        /\ get_state(dut) = OVER => LevelHyst_check(dut, dut.hyst).ret = UNDER
        /\ get_state(dut) = UNDER =>
              ((\E v \in AllValues(ty) : LevelHyst_check(dut, v).ret = OVER)
                  <=> dut.limit < TMax(ty))
        /\ (get_state(dut) = UNDER /\ dut.limit < TMax(ty)) =>
              LevelHyst_check(dut, TMax(ty)).ret = OVER

\* check(MAX) on a monitor in UNDER whose limit is MAX: it stays UNDER.
C19_Witness ==
    /\ last.op = "check"
    /\ last.val = TMax(ty)
    /\ dut.limit = TMax(ty)
    /\ dut.hyst = TMin(ty)
    /\ last.prev.level_state = UNDER
    /\ get_state(dut) = UNDER

(* ----------------- a sender with an optional observer ------------------ *)

\* HolderOption.fp: Option<&dyn Observer<T, U>>, either None or a reference
\* to the monitor dut.
OptionFp == {"None", "Some"}

\* match b.fp { None => (), Some(fp) => fp.dispatch(&b.inner, val) }
send_guarded_skips(fp, self, sender, val) ==
    [self |-> self, dispatched |-> FALSE]

send_guarded(fp, self, sender, val) ==
    IF fp = "None"
    THEN [self |-> self, dispatched |-> FALSE]
    ELSE [self |-> dispatch_SensorInner(self, sender, val), dispatched |-> TRUE]

\* b.fp.unwrap().dispatch(&b.inner, val): unwrap panics on None, before
\* anything is dispatched.
send_unwrapped(fp, self, sender, val) ==
    IF fp = "None"
    THEN [self |-> self, outcome |-> "panicked"]
    ELSE [self |-> dispatch_SensorInner(self, sender, val), outcome |-> "returned"]

\* The thread has panicked: nothing more is called.
Panicked == last.op = "unguarded_send" /\ last.outcome = "panicked"

GuardedSend ==
    /\ Ready
    /\ \E fp \in OptionFp, sender \in SensorInner(ty), val \in Samples(ty) :
        LET r == send_guarded(fp, dut, sender, val)
            s == send_guarded(fp, swapped, sender, val)
        IN  /\ dut' = r.self
            /\ swapped' = s.self
            /\ last' = [op |-> "guarded_send", fp |-> fp, sender |-> sender,
                        val |-> val, prev |-> dut, dispatched |-> r.dispatched]
    /\ UNCHANGED <<ty, args>>

UnguardedSend ==
    /\ Ready
    /\ \E fp \in OptionFp, sender \in SensorInner(ty), val \in Samples(ty) :
        LET r == send_unwrapped(fp, dut, sender, val)
            s == send_unwrapped(fp, swapped, sender, val)
        IN  /\ dut' = r.self
            /\ swapped' = s.self
            /\ last' = [op |-> "unguarded_send", fp |-> fp, sender |-> sender,
                        val |-> val, prev |-> dut, outcome |-> r.outcome]
    /\ UNCHANGED <<ty, args>>

HolderNext ==
    \/ ~Panicked /\ Next
    \/ GuardedSend
    \/ UnguardedSend

SpecHolder == Init /\ [][HolderNext]_vars

MaxRun == 3

\* What is remembered of the checks made since construction or since the
\* last set_state: how many there were, how many changed the state, whether
\* all inputs were > hyst, whether all were <= limit, and whether the most
\* recent one changed the state and where its input lay.
EmptyRun ==
    [n |-> 0, changes |-> 0, above |-> TRUE, below |-> TRUE,
     prevChanged |-> FALSE, prevLow |-> FALSE, prevHigh |-> FALSE]

RunSoFar == IF last.op = "new" THEN EmptyRun ELSE last.run

Extend(run, before, after, input) ==
    [n |-> run.n + 1,
     changes |-> run.changes + (IF get_state(after) # get_state(before) THEN 1 ELSE 0),
     above |-> run.above /\ input > before.hyst,
     below |-> run.below /\ input <= before.limit,
     prevChanged |-> get_state(after) # get_state(before),
     prevLow |-> input <= before.hyst,
     prevHigh |-> input > before.limit]

\* One more check in the run: dut.check(input), or a dispatch that feeds
\* input (the context's max or val) into check.
RunCheck ==
    /\ Ready
    /\ RunSoFar.n < MaxRun
    /\ \E input \in Samples(ty) :
        \E after \in {LevelHyst_check(dut, input).self}
                 \cup {dispatch_SensorGroupInner(dut, [min |-> lo, max |-> input], v) :
                           lo \in {TMin(ty), input}, v \in {TMin(ty), TMax(ty)}}
                 \cup {dispatch_SensorInner(dut, [val |-> input], v) :
                           v \in {TMin(ty), TMax(ty)}} :
            /\ dut' = after
            /\ swapped' = LevelHyst_check(swapped, input).self
            /\ last' = [op |-> "run_check", input |-> input, prev |-> dut,
                        before |-> RunSoFar,
                        run |-> Extend(RunSoFar, dut, after, input)]
    /\ UNCHANGED <<ty, args>>

\* dut.set_state(state) ends the run.
RunSetState ==
    /\ Ready
    /\ \E state \in LevelState :
        /\ dut' = set_state(dut, state)
        /\ swapped' = set_state(swapped, state)
        /\ last' = [op |-> "run_set_state", state |-> state, prev |-> dut,
                    run |-> EmptyRun]
    /\ UNCHANGED <<ty, args>>

RunForget ==
    /\ ~Ready
    /\ last' = [op |-> "idle", prior |-> "other", run |-> last.run]
    /\ UNCHANGED <<ty, args, dut, swapped>>

RunNext ==
    \/ RunCheck
    \/ RunSetState
    \/ RunForget

SpecRun == Init /\ [][RunNext]_vars

\* C17: in a run of check calls with no set_state in between whose inputs
\* are all > hyst, or all <= limit, the state changes at most once; two
\* changes in a row need one input <= hyst and another input > limit.
C17_AtMostOneChange ==
    last.op = "run_check" =>
        /\ (last.run.above \/ last.run.below) => last.run.changes <= 1
        /\ (last.run.prevChanged /\ last.before.prevChanged) =>
              \/ last.run.prevLow /\ last.before.prevHigh
              \/ last.run.prevHigh /\ last.before.prevLow

\* A run of three checks, all with inputs > hyst and not all <= limit, in
\* which the state changed exactly once.
C17_Witness ==
    /\ last.op = "run_check"
    /\ last.run.n = 3
    /\ last.run.above
    /\ ~last.run.below
    /\ last.run.changes = 1

(* --------------------- the calls, one store at a time ------------------ *)

\* let a = match self.level_state.get() { ... }: reads the cell, which is
\* left as it was, and classifies val against the threshold of that state.
check_match_replacing(self, val) ==
    [self |-> [self EXCEPT !.level_state = UNDER],
     a |-> IF self.level_state = OVER
           THEN check(val, self.hyst)
           ELSE check(val, self.limit)]

check_match(self, val) ==
    [self |-> self,
     a |-> IF self.level_state = OVER
           THEN check(val, self.hyst)
           ELSE check(val, self.limit)]

\* self.level_state.replace(a) in check.
check_replace(self, a) == [self EXCEPT !.level_state = a]

\* self.level_state.replace(<what check returned>) in dispatch.
dispatch_replace(self, ret) == [self EXCEPT !.level_state = ret]

\* A call of `call` with `input` fed to check has reached position `pc`.
InCall(call, input, before, a, as, pc) ==
    [op |-> "in_call", call |-> call, input |-> input, prev |-> before,
     a |-> a, as |-> as, pc |-> pc]

Enter(call, input) ==
    LET r == check_match(dut, input)
        s == check_match(swapped, input)
    IN  /\ dut' = r.self
        /\ swapped' = s.self
        /\ last' = InCall(call, input, dut, r.a, s.a, "matched")

\* dut.check(val) begins.
StepCheck ==
    /\ Ready
    /\ \E val \in Samples(ty) : Enter("check", val)
    /\ UNCHANGED <<ty, args>>

\* dispatch(&sender, val) on a SensorGroupInner begins: check(sender.get_max()).
StepDispatchGroup ==
    /\ Ready
    /\ \E sender \in SensorGroupInner(ty), val \in Samples(ty) :
        Enter("dispatch_group", get_max(sender))
    /\ UNCHANGED <<ty, args>>

\* dispatch(&sender, val) on a SensorInner begins: check(sender.val).
StepDispatchSensor ==
    /\ Ready
    /\ \E sender \in SensorInner(ty), val \in Samples(ty) :
        Enter("dispatch_sensor", sender.val)
    /\ UNCHANGED <<ty, args>>

\* The store inside check.
StepReplace ==
    /\ last.op = "in_call"
    /\ last.pc = "matched"
    /\ dut' = check_replace(dut, last.a)
    /\ swapped' = check_replace(swapped, last.as)
    /\ last' = [last EXCEPT !.pc = "replaced"]
    /\ UNCHANGED <<ty, args>>

\* check has returned a to dispatch, which stores it again.
StepReplaceAgain ==
    /\ last.op = "in_call"
    /\ last.call \in {"dispatch_group", "dispatch_sensor"}
    /\ last.pc = "replaced"
    /\ dut' = dispatch_replace(dut, last.a)
    /\ swapped' = dispatch_replace(swapped, last.as)
    /\ last' = [last EXCEPT !.pc = "replaced_again"]
    /\ UNCHANGED <<ty, args>>

\* The call returns to its caller.
StepReturn ==
    /\ last.op = "in_call"
    /\ last.pc = (IF last.call = "check" THEN "replaced" ELSE "replaced_again")
    /\ last' = [op |-> "returned", call |-> last.call, input |-> last.input,
                prev |-> last.prev, ret |-> last.a]
    /\ UNCHANGED <<ty, args, dut, swapped>>

\* dut.set_state(state): a single store.
StepSetState ==
    /\ Ready
    /\ \E state \in LevelState :
        /\ dut' = set_state(dut, state)
        /\ swapped' = set_state(swapped, state)
        /\ last' = [op |-> "returned", call |-> "set_state", input |-> state,
                    prev |-> dut, ret |-> state]
    /\ UNCHANGED <<ty, args>>

StepForget ==
    /\ last.op = "returned"
    /\ last' = [op |-> "idle", prior |-> "other"]
    /\ UNCHANGED <<ty, args, dut, swapped>>

StepNext ==
    \/ StepCheck
    \/ StepDispatchGroup
    \/ StepDispatchSensor
    \/ StepReplace
    \/ StepReplaceAgain
    \/ StepReturn
    \/ StepSetState
    \/ StepForget

SpecSteps == Init /\ [][StepNext]_vars

\* The state the whole call leaves, by the operators of the whole calls.
FinalState(call, before, input) ==
    CASE call = "check" -> get_state(LevelHyst_check(before, input).self)
      [] call = "dispatch_group" ->
            get_state(dispatch_SensorGroupInner(
                before, [min |-> input, max |-> input], input))
      [] call = "dispatch_sensor" ->
            get_state(dispatch_SensorInner(before, [val |-> input], input))
      [] call = "set_state" -> input

\* C12: no torn state: at every point of check, set_state and dispatch
\* (which stores the result of its check a second time) the stored state is
\* the state before the call or the call's final result, and after the
\* call it is the final result; thresholds are untouched throughout.
C12_NoTornState ==
    last.op \in {"in_call", "returned"} =>
        LET final == FinalState(last.call, last.prev, last.input)
        IN  /\ get_state(dut) \in {get_state(last.prev), final}
            /\ last.op = "in_call" /\ last.pc = "matched" =>
                  get_state(dut) = get_state(last.prev)
            /\ last.op = "in_call" /\ last.pc # "matched" => get_state(dut) = final
            /\ last.op = "returned" => get_state(dut) = final /\ last.ret = final
            /\ dut.limit = last.prev.limit
            /\ dut.hyst = last.prev.hyst

\* Inside a dispatch whose check leaves the state as it was: the cell has
\* been stored once by check and not yet a second time by dispatch.
C12_Witness ==
    /\ last.op = "in_call"
    /\ last.call = "dispatch_group"
    /\ last.pc = "replaced"
    /\ get_state(last.prev) = OVER
    /\ get_state(dut) = OVER
====
